---- MODULE Spec2Model ----
(***************************************************************************)
(* Model of vkcapture-show.py: the poll loop of main(), its accept and     *)
(* data handlers, the render tick and cleanup_views().                     *)
(*                                                                         *)
(* Program variables keep their source names.  The operating-system side   *)
(* (which peer sockets, handles and mappings are open) is kept in `res`;   *)
(* every handler yields the sequence of resource operations it performs    *)
(* (`log`), and `res` is obtained by replaying that sequence, so that the  *)
(* order of operations inside one handler can be examined.                 *)
(*                                                                         *)
(* Environment: transferred handles are DMA buffers of at least one byte;  *)
(* handle numbers start at 1 (0, 1, 2 are the standard streams); the       *)
(* viewer runs without -r options (show_full_window).                      *)
(***************************************************************************)
EXTENDS Integers, Sequences, FiniteSets, TLC

\* ------------------------------------------------------------------ bounds
MaxPeers == 3
MaxFd == 3
MaxMsgFds == 2

\* ------------------------------------------------------- program constants
TEX_SIZE == 128
TYPE_TEXTURE_DATA == 11

\* ------------------------------------------------------------ input domains
None == 0
ServerSock == -1
PeerIds == 1..MaxPeers
FdIds == 1..MaxFd
MsgLens == {TEX_SIZE - 1, TEX_SIZE}
MsgTypes == {TYPE_TEXTURE_DATA, TYPE_TEXTURE_DATA + 1}
Widths == {0, 1}
Heights == {1, 2}
Strides == {-1, 2, 4}
Sizes == {4, 5, 8}
RecvKinds == {"msg", "eof", "reset", "pipe"}
SendKinds == {"ok", "pipe"}

NoMap == [fd |-> None, size |-> 0]

Ev(op, a, b, c) == [op |-> op, a |-> a, b |-> b, c |-> c]

Max(a, b) == IF a >= b THEN a ELSE b

B2I(b) == IF b THEN 1 ELSE 0

VARIABLES pc, conn, new_conn, mapped_buf, current_fd, width, height, stride,
          views, readable, res, pre, log, exit_cause

vars == <<pc, conn, new_conn, mapped_buf, current_fd, width, height, stride,
          views, readable, res, pre, log, exit_cause>>

\* --------------------------------------------------- resources and replay
LowestFree(ids, used) == CHOOSE x \in ids \ used : \A y \in ids \ used : x <= y

RECURSIVE NewFds(_, _)
NewFds(open, k) ==
    IF k = 0 THEN <<>>
    ELSE LET f == LowestFree(FdIds, open) IN <<f>> \o NewFds(open \cup {f}, k - 1)

SeqSet(s) == {s[i] : i \in 1..Len(s)}

ApplyOp(r, e) ==
    CASE e.op = "bind"       -> [r EXCEPT !.server = TRUE]
      [] e.op = "close_server" -> [r EXCEPT !.server = FALSE]
      [] e.op = "accept"     -> [r EXCEPT !.peers = @ \cup {e.a}]
      [] e.op = "close_peer" -> [r EXCEPT !.peers = @ \ {e.a}]
      [] e.op = "recv_msg"   -> [r EXCEPT !.fds = @ \cup SeqSet(NewFds(@, e.c))]
      [] e.op = "close_fd"   -> [r EXCEPT !.fds = @ \ {e.a}]
      [] e.op = "map"        -> [r EXCEPT !.maps = @ \cup {[fd |-> e.a, size |-> e.b]}]
      [] e.op = "unmap"      -> [r EXCEPT !.maps = {m \in @ : m.fd # e.a}]
      [] OTHER               -> r

RECURSIVE Replay(_, _)
Replay(r, ops) ==
    IF ops = <<>> THEN r ELSE Replay(ApplyOp(r, Head(ops)), Tail(ops))

\* the program variables as one value
Cur == [conn |-> conn, new_conn |-> new_conn, mapped_buf |-> mapped_buf,
        current_fd |-> current_fd, width |-> width, height |-> height,
        stride |-> stride, views |-> views]

Commit(st) ==
    /\ conn' = st.conn
    /\ new_conn' = st.new_conn
    /\ mapped_buf' = st.mapped_buf
    /\ current_fd' = st.current_fd
    /\ width' = st.width
    /\ height' = st.height
    /\ stride' = st.stride
    /\ views' = st.views

\* what a handler did: its resource operations, the program variables it leaves,
\* and whether an exception left it uncaught
Outcome(ops, st, raised) == [ops |-> ops, st |-> st, raised |-> raised]

\* the resource state after the first i operations of the last handler
Snap(i) == Replay(pre.res, SubSeq(log, 1, i))

\* ------------------------------------------------------------ cleanup_views
\* mapped_buf.close() raises BufferError (swallowed) while the caller's raw, img,
\* crop still export the buffer; whether they do depends on the numpy build (be)
CloseMapFails(v, be) == v /\ be

CleanupViews(v, m, fd, be) ==
    (IF m # NoMap /\ ~CloseMapFails(v, be) THEN <<Ev("unmap", m.fd, 0, 0)>> ELSE <<>>)
    \o (IF fd # None THEN <<Ev("close_fd", fd, 0, 0)>> ELSE <<>>)

\* the caller rebinds raw, img, crop, mapped_buf to the returned Nones: the last
\* references go, and a mapping whose close() failed is unmapped by deallocation
Rebind(v, m, be) ==
    IF m # NoMap /\ CloseMapFails(v, be) THEN <<Ev("unmap", m.fd, 1, 0)>> ELSE <<>>

Teardown(v, m, fd, be) == CleanupViews(v, m, fd, be) \o Rebind(v, m, be)

\* faulty variant: the returned Nones are not stored
Cleared_Nothing(st) == st

Cleared(st) == [st EXCEPT !.mapped_buf = NoMap, !.current_fd = None, !.views = FALSE]

\* a peer socket that no variable but new_conn refers to and that is still open
LeakedPeer(c, nc, peers) == nc # None /\ nc # c /\ nc \in peers

\* ------------------------------------------------------------------ finally
FinallyOps(st, be, peers) ==
    CleanupViews(st.views, st.mapped_buf, st.current_fd, be)
    \o (IF st.conn # None THEN <<Ev("close_peer", st.conn, 0, 0)>> ELSE <<>>)
    \o <<Ev("close_server", 0, 0, 0)>>
    \o Rebind(st.views, st.mapped_buf, be)
    \o (IF LeakedPeer(st.conn, st.new_conn, peers)
        THEN <<Ev("close_peer", st.new_conn, 1, 0)>> ELSE <<>>)

\* leave the loop: the handler's operations, then the finally block
Leave(out, be, cause) ==
    LET ops == out.ops \o FinallyOps(out.st, be, Replay(res, out.ops).peers)
    IN /\ log' = ops
       /\ res' = Replay(res, ops)
       /\ pre' = [res |-> res, st |-> Cur, rd |-> readable]
       /\ Commit(out.st)
       /\ pc' = "done"
       /\ exit_cause' = cause
       /\ readable' = <<>>

\* stay in the loop
Stay(out, nextpc, rd) ==
    /\ log' = out.ops
    /\ res' = Replay(res, out.ops)
    /\ pre' = [res |-> res, st |-> Cur, rd |-> readable]
    /\ Commit(out.st)
    /\ pc' = nextpc
    /\ readable' = rd
    /\ UNCHANGED exit_cause

Finish(out, be, nextpc, rd) ==
    IF out.raised THEN Leave(out, be, "error") ELSE Stay(out, nextpc, rd)

AfterHandler == IF Tail(readable) = <<>> THEN "render" ELSE "dispatch"

\* ------------------------------------------------------------ accept branch
\* the handshake send failures that the handler catches (line 144)
HandshakeCaught(kind) == kind = "pipe"

\* faulty variant: the handshake is sent before the previous session is torn down
GreetThenSupersede(teardown, greet) == greet \o teardown

\* lines 133-143: the previous session is torn down, then the handshake is sent
SupersedeThenGreet(teardown, greet) == teardown \o greet

\* faulty variant: the handshake is not sent
Greet_Never(p, send) == <<>>

\* lines 141-146: one handshake send per accepted peer
Greet(p, send) == <<Ev(IF send = "ok" THEN "handshake" ELSE "handshake_fail", p, 0, 0)>>

AcceptStep(st, p, send, be, peers) ==
    LET accepted == <<Ev("accept", p, 0, 0)>>
            \o (IF LeakedPeer(st.conn, st.new_conn, peers)
                THEN <<Ev("close_peer", st.new_conn, 1, 0)>> ELSE <<>>)
        teardown == IF st.conn # None
                    THEN <<Ev("close_peer", st.conn, 0, 0)>>
                         \o Teardown(st.views, st.mapped_buf, st.current_fd, be)
                    ELSE <<>>
        greet == Greet(p, send)
        torn == IF st.conn # None
                THEN [Cleared(st) EXCEPT !.width = 0, !.height = 0]
                ELSE st
        served == [torn EXCEPT !.new_conn = p, !.conn = p]
        ops == accepted \o SupersedeThenGreet(teardown, greet)
    IN IF send = "ok" THEN Outcome(ops, served, FALSE)
       ELSE IF HandshakeCaught(send)
            THEN Outcome(ops, [served EXCEPT !.conn = None], FALSE)
            ELSE Outcome(ops, served, TRUE)

\* -------------------------------------------------------------- data branch
\* faulty variant: the length of the message is not compared
IsTextureData_TypeOnly(m) == m.type = TYPE_TEXTURE_DATA

\* line 161
IsTextureData(m) == m.type = TYPE_TEXTURE_DATA /\ m.len = TEX_SIZE

\* faulty variant: a broken pipe on receive is not caught
RecvFaultCaught_ResetOnly(kind) == kind = "reset"

\* the receive failures that the handler catches (line 193)
RecvFaultCaught(kind) == kind \in {"reset", "pipe"}

RecvOp(kind) ==
    CASE kind = "eof" -> "recv_eof"
      [] kind = "reset" -> "recv_reset"
      [] kind = "pipe" -> "recv_pipe"
      [] OTHER -> "recv_msg"

\* lines 153-159 and 193-197
Disconnect(st, kind, be) ==
    LET down == <<Ev(RecvOp(kind), st.conn, 0, 0), Ev("close_peer", st.conn, 0, 0)>>
                \o Teardown(st.views, st.mapped_buf, st.current_fd, be)
        idle == [Cleared(st) EXCEPT !.conn = None]
    IN IF kind = "eof"
       THEN Outcome(down, [idle EXCEPT !.width = 0, !.height = 0], FALSE)
       ELSE IF RecvFaultCaught(kind)
            THEN Outcome(down, idle, FALSE)
            ELSE Outcome(<<Ev(RecvOp(kind), st.conn, 0, 0)>>, st, TRUE)

\* lines 173-175: the old handle is closed first
CloseOld(fd) == IF fd # None THEN <<Ev("close_fd", fd, 0, 0)>> ELSE <<>>

\* faulty variant: the new handle is mapped without the old mapping being released
ReleaseOld_Skipped(v, m, be) == <<>>

\* line 178: the old mapping is released before the new handle is mapped
ReleaseOld(v, m, be) == Teardown(v, m, None, be)

\* lines 163 and 183-187: the handle's true size is mapped and the unpacked
\* geometry recorded
MapDone(st, m, fd) ==
    Outcome(<<Ev("unpack", m.w, m.h, m.stride), Ev("map", fd, m.size, 0)>>,
            [st EXCEPT !.mapped_buf = [fd |-> fd, size |-> m.size],
                       !.current_fd = fd, !.views = FALSE,
                       !.width = m.w, !.height = m.h, !.stride = m.stride],
            FALSE)

\* faulty variant: the handle of a failed map is neither closed nor forgotten
MapFailed_KeepsHandle(st, fd) ==
    Outcome(<<Ev("map_fail", fd, 0, 0)>>,
            [st EXCEPT !.mapped_buf = NoMap, !.current_fd = fd, !.views = FALSE], FALSE)

\* lines 188-191: OSError of lseek or mmap; the new handle is closed
MapFailed(st, fd) ==
    Outcome(<<Ev("map_fail", fd, 0, 0), Ev("close_fd", fd, 0, 0)>>, Cleared(st), FALSE)

\* lines 170-191
Resize(st, m, fd, be, mapOk) ==
    LET old == CloseOld(st.current_fd) \o ReleaseOld(st.views, st.mapped_buf, be)
        new == IF mapOk THEN MapDone(st, m, fd) ELSE MapFailed(st, fd)
    IN Outcome(old \o new.ops, new.st, new.raised)

\* faulty variant: the unpacked geometry is recorded although no handle came
HandleLess_Records(st, m) ==
    [st EXCEPT !.width = m.w, !.height = m.h, !.stride = m.stride]

\* lines 163-170: the geometry is unpacked into locals; without a handle (if fds:)
\* nothing is recorded
HandleLess(st, m) == st

\* lines 161-191
Message(st, m, be, mapOk, open) ==
    LET recv == <<Ev("recv_msg", m.len, m.type, m.nfds)>>
        fds == NewFds(open, m.nfds)
    IN IF ~IsTextureData(m) THEN Outcome(recv, st, FALSE)
       ELSE IF fds = <<>> THEN Outcome(recv, HandleLess(st, m), FALSE)
       ELSE LET r == Resize(st, m, fds[1], be, mapOk)
            IN Outcome(recv \o r.ops, r.st, r.raised)

DataStep(st, kind, m, be, mapOk, open) ==
    IF kind = "msg" THEN Message(st, m, be, mapOk, open) ELSE Disconnect(st, kind, be)

\* -------------------------------------------------------------- render tick
\* faulty variant: the tick runs on the recorded geometry alone
RenderActive_GeometryOnly(st) == st.width > 0 /\ st.height > 0

\* line 200
RenderActive(st) ==
    st.conn # None /\ st.mapped_buf # NoMap /\ st.width > 0 /\ st.height > 0

\* faulty variant: the size of the mapping is not compared
SizeFits_Always(n, expected) == TRUE

\* line 208: raw.size >= expected_size
SizeFits(n, expected) == n >= expected

\* len(raw[:expected_size]) for expected_size <= raw.size (a negative bound counts
\* from the end)
SliceLen(n, expected) == IF expected >= 0 THEN expected ELSE Max(0, n + expected)

\* line 210: reshape((height, stride)); a stride of -1 makes numpy infer the columns
RowBytes(len, h, s) ==
    IF s >= 0 THEN [ok |-> len = h * s, cols |-> s]
    ELSE IF s = -1 THEN [ok |-> len % h = 0, cols |-> len \div h]
    ELSE [ok |-> FALSE, cols |-> 0]

\* lines 211-212: img[:, :width*4].reshape((height, width, 4)) needs 4*width columns
Shapes(rows, w) == rows.ok /\ rows.cols >= 4 * w

\* faulty variant: the views are made and shown before the sync start
SyncedRead_Late(fd, ok, body, completes) ==
    body \o <<Ev("sync_start", fd, B2I(ok), 0)>>
    \o (IF completes THEN <<Ev("sync_end", fd, B2I(ok), 0)>> ELSE <<>>)

\* lines 202-234: sync start, the views and the export, sync end; a ValueError of
\* the reshapes (line 236) skips the rest of the tick
SyncedRead(fd, ok, body, completes) ==
    <<Ev("sync_start", fd, B2I(ok), 0)>> \o body
    \o (IF completes THEN <<Ev("sync_end", fd, B2I(ok), 0)>> ELSE <<>>)

RenderStep(st, ok) ==
    IF ~RenderActive(st) THEN Outcome(<<>>, st, FALSE)
    ELSE LET n == st.mapped_buf.size
             expected == st.stride * st.height
             fits == SizeFits(n, expected)
             rows == RowBytes(SliceLen(n, expected), st.height, st.stride)
             shown == fits /\ Shapes(rows, st.width)
             body == IF shown THEN <<Ev("export", st.width, st.height, rows.cols)>>
                     ELSE <<>>
         IN Outcome(SyncedRead(st.current_fd, ok, body, ~fits \/ shown),
                    [st EXCEPT !.views = TRUE], FALSE)

\* ------------------------------------------------------------------ actions
Messages ==
    {m \in [len : MsgLens, type : MsgTypes, w : Widths, h : Heights, stride : Strides,
            nfds : 0..MaxMsgFds, size : Sizes] :
        /\ ~IsTextureData(m) => m.w = 0 /\ m.h = 1 /\ m.stride = 2
        /\ (~IsTextureData(m) \/ m.nfds = 0) => m.size = 4}

Init ==
    /\ pc = "start"
    /\ conn = None
    /\ new_conn = None
    /\ mapped_buf = NoMap
    /\ current_fd = None
    /\ width = 0
    /\ height = 0
    /\ stride = 0
    /\ views = FALSE
    /\ readable = <<>>
    /\ res = [server |-> FALSE, peers |-> {}, fds |-> {}, maps |-> {}]
    /\ pre = [res |-> [server |-> FALSE, peers |-> {}, fds |-> {}, maps |-> {}],
              st |-> [conn |-> None, new_conn |-> None, mapped_buf |-> NoMap,
                      current_fd |-> None, width |-> 0, height |-> 0, stride |-> 0,
                      views |-> FALSE],
              rd |-> <<>>]
    /\ log = <<>>
    /\ exit_cause = "none"

\* lines 91-98
Bind ==
    /\ pc = "start"
    /\ \E ok \in BOOLEAN :
         /\ log' = <<Ev(IF ok THEN "bind" ELSE "bind_fail", 0, 0, 0)>>
         /\ res' = Replay(res, log')
         /\ pc' = IF ok THEN "select" ELSE "done"
         /\ exit_cause' = IF ok THEN "none" ELSE "bind"
    /\ pre' = [res |-> res, st |-> Cur, rd |-> readable]
    /\ UNCHANGED <<conn, new_conn, mapped_buf, current_fd, width, height, stride,
                   views, readable>>

\* lines 120-124: the listener first, then the current peer
Select ==
    /\ pc = "select"
    /\ \E srv \in BOOLEAN, peer \in BOOLEAN :
         /\ peer => conn # None
         /\ readable' = (IF srv THEN <<ServerSock>> ELSE <<>>)
                         \o (IF peer THEN <<conn>> ELSE <<>>)
    /\ pc' = IF readable' = <<>> THEN "render" ELSE "dispatch"
    /\ log' = <<>>
    /\ pre' = [res |-> res, st |-> Cur, rd |-> readable]
    /\ UNCHANGED <<conn, new_conn, mapped_buf, current_fd, width, height, stride,
                   views, res, exit_cause>>

\* faulty variant: every readable socket but the listener is read
IsCurrentPeer_AnyPeer(s, c) == s # ServerSock

\* line 148: elif s is conn
IsCurrentPeer(s, c) == c # None /\ s = c

\* lines 127-146
Accept ==
    /\ pc = "dispatch"
    /\ readable # <<>>
    /\ Head(readable) = ServerSock
    /\ \E send \in SendKinds, be \in BOOLEAN :
         LET p == LowestFree(PeerIds, res.peers \cup {conn, new_conn} \cup SeqSet(readable))
         IN Finish(AcceptStep(Cur, p, send, be, res.peers \cup {p}), be,
                   AfterHandler, Tail(readable))

\* lines 148-197
PeerData ==
    /\ pc = "dispatch"
    /\ readable # <<>>
    /\ IsCurrentPeer(Head(readable), conn)
    /\ \E kind \in RecvKinds, m \in Messages, be \in BOOLEAN, mapOk \in BOOLEAN :
         /\ kind = "msg" => Cardinality(FdIds \ res.fds) >= m.nfds
         /\ Finish(DataStep(Cur, kind, m, be, mapOk, res.fds), be,
                   AfterHandler, Tail(readable))

\* line 148: a socket of the readable list that is no longer conn is passed over
SkipStale ==
    /\ pc = "dispatch"
    /\ readable # <<>>
    /\ Head(readable) # ServerSock
    /\ ~IsCurrentPeer(Head(readable), conn)
    /\ Stay(Outcome(<<>>, Cur, FALSE), AfterHandler, Tail(readable))

\* lines 199-240
RenderFrame ==
    /\ pc = "render"
    /\ \E ok \in BOOLEAN : Stay(RenderStep(Cur, ok), "waitkey", <<>>)

\* lines 243-245 and the finally block
WaitKey ==
    /\ pc = "waitkey"
    /\ \E quit \in BOOLEAN, be \in BOOLEAN :
         IF quit THEN Leave(Outcome(<<>>, Cur, FALSE), be, "quit")
         ELSE Stay(Outcome(<<>>, Cur, FALSE), "select", <<>>)

\* lines 247-253
KeyboardInterrupt ==
    /\ pc \in {"select", "dispatch", "render", "waitkey"}
    /\ \E be \in BOOLEAN : Leave(Outcome(<<>>, Cur, FALSE), be, "interrupt")

Next ==
    \/ Bind
    \/ Select
    \/ Accept
    \/ PeerData
    \/ SkipStale
    \/ RenderFrame
    \/ WaitKey
    \/ KeyboardInterrupt

Spec == Init /\ [][Next]_vars

\* ------------------------------------------------------------------- claims
Has(op) == \E i \in DOMAIN log : log[i].op = op

Pos(op) == CHOOSE i \in DOMAIN log : log[i].op = op

Steps == 0..Len(log)

Session(st) == <<st.conn, st.mapped_buf, st.current_fd, st.width, st.height, st.stride>>

\* C1: on every teardown path the mapping is released before its backing handle is
\* closed: at no point of any handler is a mapping live whose handle is closed.
C1_UnmapBeforeClose ==
    \A i \in Steps : \A m \in Snap(i).maps : m.fd \in Snap(i).fds

\* C2: at most one mapping is live at any point of any handler; a successful
\* resize releases exactly one mapping, before it creates exactly one.
C2_SingleActiveMapping ==
    /\ \A i \in Steps : Cardinality(Snap(i).maps) <= 1
    /\ pc # "done" => res.maps = (IF mapped_buf = NoMap THEN {} ELSE {mapped_buf})
    /\ (Has("map") /\ pre.st.mapped_buf # NoMap) =>
          /\ Cardinality({i \in DOMAIN log : log[i].op = "unmap"}) = 1
          /\ Cardinality({i \in DOMAIN log : log[i].op = "map"}) = 1
          /\ Snap(Pos("map") - 1).maps = {}
          /\ res.maps = {mapped_buf}

C2_Witness ==
    /\ Has("map")
    /\ pre.st.mapped_buf # NoMap
    /\ pre.st.views
    /\ mapped_buf.fd # pre.st.mapped_buf.fd

\* C3: when a connection is accepted while a session is active, the old peer is
\* closed, the old mapping released and the old handle closed before the handshake
\* is sent to the new peer.
C3_ReconnectionSupersedes ==
    (Has("accept") /\ pre.st.conn # None) =>
        /\ Has("handshake") \/ Has("handshake_fail")
        /\ LET h == IF Has("handshake") THEN Pos("handshake") ELSE Pos("handshake_fail")
               before == Snap(h - 1)
           IN /\ log[h].a # pre.st.conn
              /\ pre.st.conn \notin before.peers
              /\ before.maps = {}
              /\ pre.st.current_fd # None => pre.st.current_fd \notin before.fds

C3_Witness ==
    /\ Has("accept")
    /\ Has("handshake")
    /\ pre.st.conn # None
    /\ pre.st.mapped_buf # NoMap
    /\ pre.st.mapped_buf \in pre.res.maps
    /\ pre.st.current_fd \in pre.res.fds

\* the peer whose operation failed in the last handler
Faulted == Has("recv_eof") \/ Has("recv_reset") \/ Has("recv_pipe") \/ Has("handshake_fail")

FaultPeer == IF Has("handshake_fail") THEN log[Pos("handshake_fail")].a ELSE pre.st.conn

\* C4: on every transport fault of a peer (end-of-stream, reset or broken pipe on
\* receive, broken pipe on the handshake send) the machine is Idle with that peer's
\* socket closed, any mapping released and any held handle closed.
C4_DisconnectReleasesEverything ==
    Faulted =>
        /\ conn = None
        /\ FaultPeer \notin res.peers
        /\ mapped_buf = NoMap
        /\ res.maps = {}
        /\ current_fd = None
        /\ pre.st.current_fd # None => pre.st.current_fd \notin res.fds

LoopPcs == {"select", "dispatch", "render", "waitkey"}

\* C5: a reset, broken pipe or end-of-stream of a peer operation never ends the
\* poll loop: the machine is Idle, the listener stays open and polled, and a later
\* connection is accepted; of the failures only the bind failure ends the process,
\* before the loop is entered.
C5_TransportFaultsNotFatal ==
    /\ Faulted =>
          /\ pc \in LoopPcs
          /\ exit_cause = "none"
          /\ conn = None
          /\ res.server
          /\ LET p == LowestFree(PeerIds, res.peers \cup {new_conn})
                 out == AcceptStep(Cur, p, "ok", FALSE, res.peers \cup {p})
             IN ~out.raised /\ out.st.conn = p /\ p \in Replay(res, out.ops).peers
    /\ pc \in LoopPcs => res.server /\ exit_cause = "none"
    /\ exit_cause \in {"none", "bind", "quit", "interrupt"}
    /\ exit_cause = "bind" =>
          /\ pc = "done"
          /\ log = <<Ev("bind_fail", 0, 0, 0)>>
          /\ new_conn = None
          /\ res.peers = {}

C5_Witness ==
    /\ Has("recv_pipe")
    /\ pre.st.mapped_buf # NoMap
    /\ pc \in LoopPcs

\* C6: in a render tick in which the mapping is smaller than rowStride*height of
\* the recorded geometry, no view is exported and no surface memory is read.
C6_BoundsSafety ==
    (Has("sync_start") /\ pre.st.mapped_buf.size < pre.st.stride * pre.st.height) =>
        ~Has("export")

C6_Witness ==
    /\ Has("sync_start")
    /\ Has("sync_end")
    /\ pre.st.mapped_buf.size < pre.st.stride * pre.st.height

\* C7: every export of surface memory is preceded, in the same tick, by a sync
\* start on the current handle and followed by the matching sync end; no handler
\* exports outside such a window.
C7_SyncBracketed ==
    \A i \in DOMAIN log : log[i].op = "export" =>
        /\ pre.st.current_fd = pre.st.mapped_buf.fd
        /\ pre.st.mapped_buf \in pre.res.maps
        /\ \E j \in 1..(i - 1) :
              /\ log[j].op = "sync_start"
              /\ log[j].a = pre.st.current_fd
              /\ \A k \in (j + 1)..(i - 1) : log[k].op # "sync_end"
        /\ \E k \in (i + 1)..Len(log) :
              /\ log[k].op = "sync_end"
              /\ log[k].a = pre.st.current_fd

C7_Witness ==
    /\ Has("export")
    /\ pc = "waitkey"

\* C8: a non-empty message is taken as a surface descriptor iff it has exactly 128
\* bytes and its first byte is 11; any other non-empty message leaves the peer, the
\* mapping, the held handle and the recorded width, height and stride unchanged.
C8_FramingExactness ==
    (log # <<>> /\ log[1].op = "recv_msg") =>
        LET tex == log[1].a = 128 /\ log[1].b = 11
        IN /\ ~tex =>
                /\ Len(log) = 1
                /\ Session(Cur) = Session(pre.st)
                /\ res.maps = pre.res.maps
                /\ res.peers = pre.res.peers
           /\ (Has("map") \/ Has("map_fail")) => tex
           /\ (tex /\ log[1].c > 0) => (Has("map") \/ Has("map_fail"))

C8_Witness ==
    /\ log # <<>>
    /\ log[1].op = "recv_msg"
    /\ log[1].a = 127
    /\ log[1].b = 11
    /\ log[1].c > 0
    /\ mapped_buf # NoMap

\* C9: when mapping the handle of a surface message fails, the peer stays
\* connected, no mapping is live, the new handle is closed and none is held, and
\* a later surface message with a handle is mapped successfully.
C9_MapFailureRecovered ==
    Has("map_fail") =>
        /\ pc \in LoopPcs
        /\ conn # None
        /\ conn = pre.st.conn
        /\ conn \in res.peers
        /\ mapped_buf = NoMap
        /\ res.maps = {}
        /\ current_fd = None
        /\ log[Pos("map_fail")].a \notin res.fds
        /\ \A m \in Messages :
              (m.len = 128 /\ m.type = 11 /\ m.nfds > 0
                 /\ Cardinality(FdIds \ res.fds) >= m.nfds) =>
                  LET out == Message(Cur, m, FALSE, TRUE, res.fds)
                  IN /\ ~out.raised
                     /\ out.st.conn = conn
                     /\ out.st.mapped_buf # NoMap
                     /\ out.st.current_fd = out.st.mapped_buf.fd
                     /\ Replay(res, out.ops).maps = {out.st.mapped_buf}

C9_Witness ==
    /\ Has("map_fail")
    /\ pre.st.mapped_buf # NoMap
    /\ Cardinality(FdIds \ res.fds) >= 1

\* C10: a surface message with width W, height H, array-A[0] = S whose handle is
\* mapped successfully gives a mapping of at least S*H bytes, and every view the
\* render tick exports from it has width W, height H and row stride S.
C10_GeometryRoundTrip ==
    /\ Has("map") =>
          LET d == log[Pos("unpack")]
          IN /\ log[Pos("map")].b >= d.c * d.b
             /\ <<width, height, stride>> = <<d.a, d.b, d.c>>
    /\ \A i \in DOMAIN log : log[i].op = "export" =>
          <<log[i].a, log[i].b, log[i].c>> = <<width, height, stride>>

\* C11: at most one accepted peer socket is open at any time, and every accepted
\* peer socket is closed when it stops being the current peer.
C11_AtMostOnePeer ==
    pc \in LoopPcs =>
        /\ Cardinality(res.peers) <= 1
        /\ \A p \in res.peers : p = conn

\* C12: whenever the loop is left (stop key, keyboard interrupt, an error leaving
\* the loop body) the final state has no live mapping, no open surface handle, no
\* open peer socket and a closed listener, and the mapping was released before
\* its handle was closed.
C12_FinalCleanup ==
    (pc = "done" /\ exit_cause # "bind") =>
        /\ res.maps = {}
        /\ res.fds = {}
        /\ res.peers = {}
        /\ ~res.server
        /\ \A i \in Steps : \A m \in Snap(i).maps : m.fd \in Snap(i).fds

HandshakeAt == {i \in DOMAIN log : log[i].op \in {"handshake", "handshake_fail"}}

Received == Has("recv_msg") \/ Has("recv_eof") \/ Has("recv_reset") \/ Has("recv_pipe")

\* C13: for every accepted peer the handshake is sent exactly once, in the step
\* of the accept and after it, and nothing is received from a peer before the
\* handshake send to it was attempted.
C13_HandshakeFirst ==
    /\ Has("accept") =>
          /\ Cardinality(HandshakeAt) = 1
          /\ \A i \in HandshakeAt : i > Pos("accept") /\ log[i].a = log[Pos("accept")].a
          /\ new_conn = log[Pos("accept")].a
          /\ ~Received
    /\ HandshakeAt # {} => Has("accept")
    /\ Received => pre.st.conn # None /\ pre.st.conn = pre.st.new_conn
    /\ conn # None => conn = new_conn

C13_Witness ==
    /\ Has("recv_msg")
    /\ pre.st.conn = pre.st.new_conn
    /\ pre.st.conn \in pre.res.peers
    /\ pre.st.conn = 2

\* C14: every sync start of a render tick is followed by a sync end on the same
\* handle within the tick, whether a view was exported, the read was skipped for
\* size, or the geometry could not be shaped into an image.
C14_SyncBracketCloses ==
    \A i \in DOMAIN log : log[i].op = "sync_start" =>
        \E k \in (i + 1)..Len(log) : log[k].op = "sync_end" /\ log[k].a = log[i].a

\* C15: after a message has been processed every handle that arrived with it is
\* either the handle backing the current mapping or closed; at most one received
\* handle is ever open.
C15_NoHandleLeak ==
    pc \in LoopPcs =>
        /\ Cardinality(res.fds) <= 1
        /\ \A f \in res.fds : f = current_fd /\ mapped_buf.fd = f

\* C16: between loop steps a live mapping implies a held open handle, and a held
\* handle or a live mapping implies a connected peer; the state is one of Idle,
\* Connected-NoSurface, Connected-Mapped.
C16_ResourceNesting ==
    pc \in LoopPcs =>
        /\ res.maps = (IF mapped_buf = NoMap THEN {} ELSE {mapped_buf})
        /\ mapped_buf # NoMap =>
              current_fd # None /\ current_fd = mapped_buf.fd /\ current_fd \in res.fds
        /\ (current_fd # None \/ mapped_buf # NoMap) => conn # None /\ conn \in res.peers
        /\ conn = None => mapped_buf = NoMap /\ current_fd = None /\ res.maps = {}
        /\ \/ conn = None /\ mapped_buf = NoMap /\ current_fd = None
           \/ conn # None /\ mapped_buf = NoMap /\ current_fd = None
           \/ conn # None /\ mapped_buf # NoMap /\ current_fd # None

C16_Witness ==
    /\ pc \in LoopPcs
    /\ conn = None
    /\ pre.st.mapped_buf # NoMap
    /\ Has("recv_reset")

\* C17: the render tick issues sync operations and exports only for a mapping
\* that is live, whose handle is open and whose peer is connected when the tick
\* runs; never for one released or closed earlier in the iteration.
C17_NoUseAfterRelease ==
    (Has("sync_start") \/ Has("sync_end") \/ Has("export")) =>
        /\ pre.st.conn # None
        /\ pre.st.conn \in pre.res.peers
        /\ pre.st.mapped_buf \in pre.res.maps
        /\ pre.st.current_fd = pre.st.mapped_buf.fd
        /\ pre.st.current_fd \in pre.res.fds
        /\ \A i \in DOMAIN log :
              log[i].op \in {"sync_start", "sync_end"} => log[i].a = pre.st.current_fd

\* a render tick that follows a teardown handled in the same iteration
C17_Witness ==
    /\ pc = "waitkey"
    /\ log = <<>>
    /\ pre.st.conn = None
    /\ pre.st.width > 0
    /\ pre.st.height > 0

\* C18: when the accept preempts the current peer (or the new handshake fails)
\* while that peer is in the same readable list, nothing is received on the old
\* socket and it changes no state; only the peer current when handled is read.
C18_SupersededNeverServiced ==
    /\ Received =>
          /\ pre.rd # <<>>
          /\ Head(pre.rd) = pre.st.conn
          /\ Head(pre.rd) \in pre.res.peers
    /\ (pc \in LoopPcs /\ pre.rd # <<>> /\ Head(pre.rd) # ServerSock
           /\ Head(pre.rd) # pre.st.conn) =>
          /\ log = <<>>
          /\ Cur = pre.st
          /\ res = pre.res

C18_Witness ==
    /\ pc \in LoopPcs
    /\ pre.rd # <<>>
    /\ Head(pre.rd) # ServerSock
    /\ Head(pre.rd) # pre.st.conn
    /\ Head(pre.rd) \notin pre.res.peers
    /\ pre.st.conn # None

\* C19: a 128-byte type-11 message without a handle leaves the peer, the mapping,
\* the held handle and the recorded width, height and stride unchanged; a message
\* changes the recorded geometry only together with a successful map.
C19_HandleLessNoOp ==
    /\ (log # <<>> /\ log[1].op = "recv_msg" /\ log[1].a = 128 /\ log[1].b = 11
          /\ log[1].c = 0) =>
          /\ Len(log) = 1
          /\ Session(Cur) = Session(pre.st)
          /\ res = pre.res
    /\ (Has("recv_msg") /\ <<width, height, stride>> #
                             <<pre.st.width, pre.st.height, pre.st.stride>>) =>
          /\ Has("map")
          /\ <<width, height, stride>> =
                <<log[Pos("unpack")].a, log[Pos("unpack")].b, log[Pos("unpack")].c>>

C19_Witness ==
    /\ log = <<Ev("recv_msg", 128, 11, 0)>>
    /\ mapped_buf # NoMap
    /\ width > 0

====
